---------------------------- MODULE Spec2Model ----------------------------
(***************************************************************************)
(* A model of scrub_pii (process_chatlog_py38.py): the credit-card shield, *)
(* the nine regular-expression rules, the spaCy entity stage and the       *)
(* restore loop.  A text is a sequence of one-character strings; offsets   *)
(* are Python's (0-based, end exclusive).                                  *)
(***************************************************************************)
EXTENDS Integers, Sequences, FiniteSets, TLC

\* ------------------------------------------------------------- characters

LowerSeq == <<"a", "b", "c", "d", "e", "f", "g", "h", "i", "j", "k", "l", "m",
              "n", "o", "p", "q", "r", "s", "t", "u", "v", "w", "x", "y", "z">>
UpperSeq == <<"A", "B", "C", "D", "E", "F", "G", "H", "I", "J", "K", "L", "M",
              "N", "O", "P", "Q", "R", "S", "T", "U", "V", "W", "X", "Y", "Z">>
DigitSeq == <<"0", "1", "2", "3", "4", "5", "6", "7", "8", "9">>

Range(f) == {f[k] : k \in DOMAIN f}

Lower == Range(LowerSeq)
Upper == Range(UpperSeq)
Letter == Lower \cup Upper
Digit == Range(DigitSeq)
\* \w of Python's re on str patterns, over the model's alphabet
WordChar == Letter \cup Digit \cup {"_"}
\* \s
Space == {" ", "\t", "\n"}

\* str.upper() on one character
UpperChar(c) ==
    IF c \in Lower THEN UpperSeq[CHOOSE k \in 1..26 : LowerSeq[k] = c] ELSE c

LowerChar(c) ==
    IF c \in Upper THEN LowerSeq[CHOOSE k \in 1..26 : UpperSeq[k] = c] ELSE c

\* str.upper()
StrUpper(s) == [k \in 1..Len(s) |-> UpperChar(s[k])]

\* s[a:b] of Python, for 0 <= a and 0 <= b (slices clamp to the length)
Slice(s, a, b) ==
    LET hi == IF b > Len(s) THEN Len(s) ELSE b
    IN  IF a >= hi THEN <<>> ELSE SubSeq(s, a + 1, hi)

\* ------------------------------------------------- regular expressions
\* The nodes of a pattern.  Rep's hi = -1 is "no upper limit".

Cls(S) == [t |-> "cls", s |-> S]
NCls(S) == [t |-> "ncls", s |-> S]
Ch(c) == [t |-> "cls", s |-> {c}]
WB == [t |-> "wb"]
Cat(rs) == [t |-> "seq", rs |-> rs]
Alt(rs) == [t |-> "alt", rs |-> rs]
Rep(r, lo, hi) == [t |-> "rep", r |-> r, lo |-> lo, hi |-> hi]
Opt(r) == Rep(r, 0, 1)
Star(r) == Rep(r, 0, -1)
Plus(r) == Rep(r, 1, -1)
\* a literal word under re.IGNORECASE
Lit(w) == Cat([k \in 1..Len(w) |-> Cls({LowerChar(w[k]), UpperChar(w[k])})])

\* \b at offset i: exactly one of the two neighbours is a word character
IsWordBoundary(s, i) ==
    LET before == i > 0 /\ s[i] \in WordChar
        after == i < Len(s) /\ s[i + 1] \in WordChar
    IN  before # after

Max(ns) == CHOOSE n \in ns : \A m \in ns : m <= n
Min(ns) == CHOOSE n \in ns : \A m \in ns : n <= m

\* one character against a class node
Fits(r, c) == IF r.t = "cls" THEN c \in r.s ELSE c \notin r.s

\* how many characters from offset i, at most cap, fit the class node r in a row
RunLength(r, s, i, cap) ==
    CHOOSE n \in 0..cap :
        /\ \A k \in 1..n : Fits(r, s[i + k])
        /\ n = cap \/ ~Fits(r, s[i + n + 1])

\* The backtracking matcher of re: the end offset of the first match, in the
\* engine's priority order (alternatives left to right, repetitions greedy),
\* of the nodes of `stack` in sequence from offset i; -1 when none matches.
\* A repeated character class takes the longest run and gives characters back
\* one at a time until the rest matches.
RECURSIVE MatchFrom(_, _, _)
MatchFrom(stack, s, i) ==
    IF Len(stack) = 0 THEN i
    ELSE
      LET r == Head(stack)
          rest == Tail(stack)
      IN  CASE r.t \in {"cls", "ncls"} ->
                 IF i < Len(s) /\ Fits(r, s[i + 1])
                 THEN MatchFrom(rest, s, i + 1) ELSE -1
            [] r.t = "wb" ->
                 IF IsWordBoundary(s, i) THEN MatchFrom(rest, s, i) ELSE -1
            [] r.t = "seq" -> MatchFrom(r.rs \o rest, s, i)
            [] r.t = "alt" ->
                 IF Len(r.rs) = 0 THEN -1
                 ELSE LET a == MatchFrom(<<Head(r.rs)>> \o rest, s, i)
                      IN  IF a # -1 THEN a
                          ELSE MatchFrom(<<Alt(Tail(r.rs))>> \o rest, s, i)
            [] r.t = "rep" /\ r.r.t \in {"cls", "ncls"} ->
                 LET avail == Len(s) - i
                     cap == IF r.hi = -1 \/ r.hi > avail THEN avail ELSE r.hi
                     run == RunLength(r.r, s, i, cap)
                     ok == {n \in r.lo..run : MatchFrom(rest, s, i + n) # -1}
                 IN  IF ok = {} THEN -1 ELSE MatchFrom(rest, s, i + Max(ok))
            [] r.t = "rep" /\ r.r.t \notin {"cls", "ncls"} ->
                 IF r.hi = 0 THEN MatchFrom(rest, s, i)
                 ELSE LET lo1 == IF r.lo > 0 THEN r.lo - 1 ELSE 0
                          hi1 == IF r.hi > 0 THEN r.hi - 1 ELSE -1
                          a == MatchFrom(<<r.r, Rep(r.r, lo1, hi1)>> \o rest, s, i)
                      IN  IF a # -1 THEN a
                          ELSE IF r.lo = 0 THEN MatchFrom(rest, s, i) ELSE -1

\* The matches re.sub replaces: left to right, non-overlapping, as <<start, end>>:
\* the scan moves to the first offset from pos where the pattern matches, and
\* goes on from the end of that match.  (No pattern of the program matches the
\* empty string.)
RECURSIVE FindAll(_, _, _)
FindAll(re, s, pos) ==
    LET starts == {p \in pos..(Len(s) - 1) : MatchFrom(<<re>>, s, p) > p}
    IN  IF starts = {} THEN <<>>
        ELSE LET p == Min(starts)
                 e == MatchFrom(<<re>>, s, p)
             IN  <<<<p, e>>>> \o FindAll(re, s, e)

\* s with the k-th span of `spans` (ascending, non-overlapping) replaced by repl[k]
RECURSIVE Splice(_, _, _, _, _)
Splice(s, spans, repl, k, pos) ==
    IF k > Len(spans) THEN Slice(s, pos, Len(s))
    ELSE Slice(s, pos, spans[k][1]) \o repl[k]
         \o Splice(s, spans, repl, k + 1, spans[k][2])

\* the redaction marker "***"
MARKER == <<"*", "*", "*">>

\* re.sub(PATTERN, "***", text, flags=re.IGNORECASE)
ReSubMarker(re, s) ==
    LET ms == FindAll(re, s, 0)
    IN  Splice(s, ms, [k \in 1..Len(ms) |-> MARKER], 1, 0)

\* ------------------------------------------------------------ the patterns

D == Cls(Digit)
L == Cls(Letter)
S == Cls(Space)
AlNum == Letter \cup Digit

\* [A-Za-z]\s*\d\s*[A-Za-z]\s*[ -]?\s*\d\s*[A-Za-z]\s*\d
POSTAL_CODE_PATTERN ==
    Cat(<<L, Star(S), D, Star(S), L, Star(S), Opt(Cls({" ", "-"})), Star(S),
          D, Star(S), L, Star(S), D>>)

\* \b([A-Za-z]{2}\s*\d{6})\b
PASSPORT_PATTERN == Cat(<<WB, Rep(L, 2, 2), Star(S), Rep(D, 6, 6), WB>>)

\* (\d{3}\s*\d{3}\s*\d{3}|\d{3}\D*\d{3}\D*\d{3})
SIN_PATTERN ==
    Alt(<<Cat(<<Rep(D, 3, 3), Star(S), Rep(D, 3, 3), Star(S), Rep(D, 3, 3)>>),
          Cat(<<Rep(D, 3, 3), Star(NCls(Digit)), Rep(D, 3, 3),
                Star(NCls(Digit)), Rep(D, 3, 3)>>)>>)

\* [\s.-]
SepChar == Cls(Space \cup {".", "-"})

\* (\+\d{1,2}\s?)?1?\-?\.\s?\(?\d{3}\)?[\s.-]?\d{3}[\s.-]?\d{4}
PHONE_PATTERN_1 ==
    Cat(<<Opt(Cat(<<Ch("+"), Rep(D, 1, 2), Opt(S)>>)), Opt(Ch("1")),
          Opt(Ch("-")), Ch("."), Opt(S), Opt(Ch("(")), Rep(D, 3, 3),
          Opt(Ch(")")), Opt(SepChar), Rep(D, 3, 3), Opt(SepChar),
          Rep(D, 4, 4)>>)

D29 == Cls({"2", "3", "4", "5", "6", "7", "8", "9"})
D0229 == Cls({"0", "2", "3", "4", "5", "6", "7", "8", "9"})
D0228 == Cls({"0", "2", "3", "4", "5", "6", "7", "8"})
\* [2-9]1[02-9]|[2-9][02-8]1|[2-9][02-8][02-9]
AreaCode ==
    Alt(<<Cat(<<D29, Ch("1"), D0229>>), Cat(<<D29, D0228, Ch("1")>>),
          Cat(<<D29, D0228, D0229>>)>>)
\* [2-9]1[02-9]|[2-9][02-9]1|[2-9][02-9]{2}
Exchange ==
    Alt(<<Cat(<<D29, Ch("1"), D0229>>), Cat(<<D29, D0229, Ch("1")>>),
          Cat(<<D29, Rep(D0229, 2, 2)>>)>>)
\* \s*(?:[.-]\s*)?
DotDash == Cat(<<Star(S), Opt(Cat(<<Cls({".", "-"}), Star(S)>>))>>)

\* (?:(?:\+?1\s*(?:[.-]\s*)?)?(?:\(\s*(AREA)\s*\)|(AREA))\s*(?:[.-]\s*)?)?
\* (EXCHANGE)\s*(?:[.-]\s*)?([0-9]{4})(?:\s*(?:#|x\.?|ext\.?|extension)\s*(\d+))?
PHONE_PATTERN_2 ==
    Cat(<<Opt(Cat(<<Opt(Cat(<<Opt(Ch("+")), Ch("1"), DotDash>>)),
                    Alt(<<Cat(<<Ch("("), Star(S), AreaCode, Star(S), Ch(")")>>),
                          AreaCode>>),
                    DotDash>>)),
          Exchange, DotDash, Rep(D, 4, 4),
          Opt(Cat(<<Star(S),
                    Alt(<<Ch("#"),
                          Cat(<<Lit(<<"x">>), Opt(Ch("."))>>),
                          Cat(<<Lit(<<"e", "x", "t">>), Opt(Ch("."))>>),
                          Lit(<<"e", "x", "t", "e", "n", "s", "i", "o", "n">>)>>),
                    Star(S), Plus(D)>>))>>)

\* ([a-zA-Z0-9_\-\.]+)\s*@([\sa-zA-Z0-9_\-\.]+)[\.\,]([a-zA-Z]{1,5})
EMAIL_PATTERN ==
    Cat(<<Plus(Cls(AlNum \cup {"_", "-", "."})), Star(S), Ch("@"),
          Plus(Cls(Space \cup AlNum \cup {"_", "-", "."})), Cls({".", ","}),
          Rep(L, 1, 5)>>)

\* [-/.]
DateSep == Cls({"-", "/", "."})

\* \b(\d{1,2}[-/.]\d{1,2}[-/.]\d{2,4}|\d{4}[-/.]\d{1,2}[-/.]\d{1,2})\b
DOB_PATTERN ==
    Cat(<<WB,
          Alt(<<Cat(<<Rep(D, 1, 2), DateSep, Rep(D, 1, 2), DateSep, Rep(D, 2, 4)>>),
                Cat(<<Rep(D, 4, 4), DateSep, Rep(D, 1, 2), DateSep, Rep(D, 1, 2)>>)>>),
          WB>>)

\* \b(?:P(?:ost(?:al)?)?\.?\s*O(?:ffice)?\.?\s*Box|General Delivery)\s+\d+\b
PO_BOX_PATTERN ==
    Cat(<<WB,
          Alt(<<Cat(<<Lit(<<"P">>),
                      Opt(Cat(<<Lit(<<"o", "s", "t">>), Opt(Lit(<<"a", "l">>))>>)),
                      Opt(Ch(".")), Star(S), Lit(<<"O">>),
                      Opt(Lit(<<"f", "f", "i", "c", "e">>)), Opt(Ch(".")),
                      Star(S), Lit(<<"B", "o", "x">>)>>),
                Lit(<<"G", "e", "n", "e", "r", "a", "l", " ",
                      "D", "e", "l", "i", "v", "e", "r", "y">>)>>),
          Plus(S), Plus(D), WB>>)

StreetType ==
    Alt(<<Lit(<<"S", "t", "r", "e", "e", "t">>),
         Lit(<<"S", "t">>),
         Lit(<<"A", "v", "e", "n", "u", "e">>),
         Lit(<<"A", "v", "e">>),
         Lit(<<"R", "o", "a", "d">>),
         Lit(<<"R", "d">>),
         Lit(<<"L", "a", "n", "e">>),
         Lit(<<"L", "n">>),
         Lit(<<"D", "r", "i", "v", "e">>),
         Lit(<<"D", "r">>),
         Lit(<<"B", "o", "u", "l", "e", "v", "a", "r", "d">>),
         Lit(<<"B", "l", "v", "d">>),
         Lit(<<"C", "r", "e", "s", "c", "e", "n", "t">>),
         Lit(<<"C", "r", "e", "s">>),
         Lit(<<"C", "o", "u", "r", "t">>),
         Lit(<<"C", "t">>)>>)

\* \b[A-Za-z0-9]+\s+[A-Za-z0-9\s.-]+\s+(?:Street|St|...|Court|Ct)\b
ADDRESS_PATTERN ==
    Cat(<<WB, Plus(Cls(AlNum)), Plus(S),
          Plus(Cls(AlNum \cup Space \cup {".", "-"})), Plus(S), StreetType, WB>>)

\* \b(?:\d{4}[ -]?\d{4}[ -]?\d{4}[ -]?\d{1,4}|\d{13,16})\b
TEMP_CREDIT_CARD_IGNORE_PATTERN ==
    Cat(<<WB,
          Alt(<<Cat(<<Rep(D, 4, 4), Opt(Cls({" ", "-"})), Rep(D, 4, 4),
                      Opt(Cls({" ", "-"})), Rep(D, 4, 4), Opt(Cls({" ", "-"})),
                      Rep(D, 1, 4)>>),
                Rep(D, 13, 16)>>),
          WB>>)

\* the rule catalog, in the order of the nine re.sub calls
RULES ==
    <<POSTAL_CODE_PATTERN, PASSPORT_PATTERN, SIN_PATTERN, PHONE_PATTERN_1,
      PHONE_PATTERN_2, EMAIL_PATTERN, DOB_PATTERN, PO_BOX_PATTERN,
      ADDRESS_PATTERN>>

\* the nine substitutions, each on the result of the one before
RECURSIVE ApplyRulesFrom(_, _)
ApplyRulesFrom(s, k) ==
    IF k > Len(RULES) THEN s ELSE ApplyRulesFrom(ReSubMarker(RULES[k], s), k + 1)

ApplyRules(s) == ApplyRulesFrom(s, 1)

\* ------------------------------------------------------------ the shield

\* str(n) for n >= 0
RECURSIVE Decimal(_)
Decimal(n) ==
    IF n < 10 THEN <<DigitSeq[n + 1]>>
    ELSE Decimal(n \div 10) \o <<DigitSeq[(n % 10) + 1]>>

\* "@@TEMP_CC_PLACEHOLDER_"
PLACEHOLDER_PREFIX ==
    <<"@", "@", "T", "E", "M", "P", "_", "C", "C", "_",
      "P", "L", "A", "C", "E", "H", "O", "L", "D", "E", "R", "_">>

\* "@@TEMP_CC_PLACEHOLDER_{}@@".format(i)
Placeholder(i) == PLACEHOLDER_PREFIX \o Decimal(i) \o <<"@", "@">>

\* the sentinel of the restore loop, "[UNEXPECTED_CC_PLACEHOLDER]"
UNEXPECTED ==
    <<"[", "U", "N", "E", "X", "P", "E", "C", "T", "E", "D", "_", "C", "C", "_",
      "P", "L", "A", "C", "E", "H", "O", "L", "D", "E", "R", "]">>

\* re.sub(TEMP_CREDIT_CARD_IGNORE_PATTERN, cc_match_replacer, text): the k-th
\* match is appended to cc_matches and replaced by the placeholder of k - 1
Shield(s) ==
    LET ms == FindAll(TEMP_CREDIT_CARD_IGNORE_PATTERN, s, 0)
    IN  [text |-> Splice(s, ms, [k \in 1..Len(ms) |-> Placeholder(k - 1)], 1, 0),
         cc_matches |-> [k \in 1..Len(ms) |-> Slice(s, ms[k][1], ms[k][2])]]

\* ------------------------------------------------------------ the restore

\* str.find(sub): the first offset where sub occurs in s, -1 when it does not
Find(s, sub) ==
    LET at == {i \in 0..(Len(s) - Len(sub)) : Slice(s, i, i + Len(sub)) = sub}
    IN  IF at = {} THEN -1 ELSE Min(at)

\* sub in s
Contains(s, sub) == Find(s, sub) # -1

\* s.replace(old, new, 1)
ReplaceFirst(s, old, new) ==
    LET i == Find(s, old)
    IN  IF i = -1 THEN s
        ELSE Slice(s, 0, i) \o new \o Slice(s, i + Len(old), Len(s))

\* one iteration of the while loop that finds its placeholder
RestoreIter(s, cc, i) ==
    IF i < Len(cc) THEN ReplaceFirst(s, Placeholder(i), cc[i + 1])
    ELSE ReplaceFirst(s, Placeholder(i), UNEXPECTED)

\* the whole loop: from idx = i until the placeholder of idx is not in the text
RECURSIVE Restore(_, _, _)
Restore(s, cc, i) ==
    IF Contains(s, Placeholder(i)) THEN Restore(RestoreIter(s, cc, i), cc, i + 1)
    ELSE s

\* -------------------------------------------------------------- the values
\* What scrub_pii is given and what it returns: a text, an integer, or one of the
\* two missing markers of the tests (float('nan'), None).

NaN == [kind |-> "nan", s |-> <<>>, n |-> 0]
None == [kind |-> "none", s |-> <<>>, n |-> 0]
StrValue(s) == [kind |-> "str", s |-> s, n |-> 0]
IntValue(n) == [kind |-> "int", s |-> <<>>, n |-> n]
\* no value: the call has not returned
Unset == [kind |-> "unset", s |-> <<>>, n |-> 0]

\* a test for None only (text is None)
IsNaNoneOnly(v) == v.kind = "none"

\* pd.isna(text) on a scalar
IsNa(v) == v.kind \in {"nan", "none"}

\* str(text)
Str(v) ==
    CASE v.kind = "str" -> v.s
      [] v.kind = "int" -> Decimal(v.n)
      [] v.kind = "nan" -> <<"n", "a", "n">>
      [] OTHER -> <<"N", "o", "n", "e">>

\* ------------------------------------------------------- the entity stage
\* An entity is the tuple (start_char, end_char, label_) the code builds from it.

ACRONYMS == {<<"P", "I", "I">>, <<"D", "O", "B">>}
MISLABELS == {"ORG", "PERSON", "PRODUCT", "WORK_OF_ART", "LAW", "EVENT"}
KEEP_LABELS == {"PERSON", "ORG", "GPE", "LOC"}

\* ent.text: the text of the document the span covers
EntText(t, e) == Slice(t, e[1], e[2])

\* the filter without its first branch
ScrubbedNoAcronymGuard(t, e) == e[3] \in KEEP_LABELS

\* the if / elif of the loop over doc.ents: whether the entity is appended
Scrubbed(t, e) ==
    IF StrUpper(EntText(t, e)) \in ACRONYMS /\ e[3] \in MISLABELS THEN FALSE
    ELSE e[3] \in KEEP_LABELS

\* the loop over doc.ents: the tuples appended, in the order of doc.ents
RECURSIVE FilterEnts(_, _)
FilterEnts(t, d) ==
    IF Len(d) = 0 THEN <<>>
    ELSE (IF Scrubbed(t, Head(d)) THEN <<Head(d)>> ELSE <<>>)
         \o FilterEnts(t, Tail(d))

\* the order of a sort without reverse=True
BeforeAscending(a, b) == a[1] <= b[1]

\* whether a goes before b in the sorted list: sort(reverse=True, key=start)
Before(a, b) == a[1] >= b[1]

\* list.sort is stable: an element goes after those that sort before it
RECURSIVE SortEnts(_)
SortEnts(es) ==
    IF Len(es) = 0 THEN <<>>
    ELSE LET front == SortEnts(SubSeq(es, 1, Len(es) - 1))
             last == es[Len(es)]
             n == Cardinality({k \in 1..Len(front) : Before(front[k], last)})
         IN  SubSeq(front, 1, n) \o <<last>> \o SubSeq(front, n + 1, Len(front))

\* text = text[:start] + "***" + text[end:]
ReplaceSpan(t, e) == Slice(t, 0, e[1]) \o MARKER \o Slice(t, e[2], Len(t))

\* the loop over entities_to_scrub_tuples
RECURSIVE RewriteEnts(_, _)
RewriteEnts(t, es) ==
    IF Len(es) = 0 THEN t ELSE RewriteEnts(ReplaceSpan(t, Head(es)), Tail(es))

\* a loop over doc.ents that rewrites the text as it goes
TextAfterRaiseEager(t, d, k) ==
    RewriteEnts(t, SortEnts(FilterEnts(t, SubSeq(d, 1, k))))

\* The text when an exception leaves the try block during the k-th pass of the
\* loop over doc.ents: the rewrite loop has not started, the text is untouched.
TextAfterRaise(t, d, k) == t

\* ----------------------------------------------------------- the recognizer
\* nlp(text) is outside the program.  It answers with any sequence of at most
\* MaxEnts entities over distinct spans of whole whitespace-delimited tokens,
\* in any order and with any label of Labels, or it raises, or it does not
\* answer.

MaxEnts == 2

Labels ==
    {"PERSON", "ORG", "GPE", "LOC", "PRODUCT", "WORK_OF_ART", "LAW", "EVENT",
     "DATE"}

TokenStarts(t) ==
    {i \in 0..(Len(t) - 1) : t[i + 1] \notin Space /\ (i = 0 \/ t[i] \in Space)}

TokenEnds(t) ==
    {j \in 1..Len(t) : t[j] \notin Space /\ (j = Len(t) \/ t[j + 1] \in Space)}

Spans(t) == {sp \in TokenStarts(t) \X TokenEnds(t) : sp[1] < sp[2]}

Ents(t) == {<<sp[1], sp[2], l>> : sp \in Spans(t), l \in Labels}

Docs(t) ==
    {d \in UNION {[1..n -> Ents(t)] : n \in 0..MaxEnts} :
        \A i \in 1..Len(d) : \A j \in 1..Len(d) :
            i < j => <<d[i][1], d[i][2]>> # <<d[j][1], d[j][2]>>}

\* --------------------------------------------------------------- the inputs

Values ==
    {NaN, None, IntValue(123456789),
     \* "Card 1234-5678-9012-3456"
     StrValue(<<"C", "a", "r", "d", " ", "1", "2", "3", "4", "-", "5", "6", "7",
                "8", "-", "9", "0", "1", "2", "-", "3", "4", "5", "6">>),
     \* "1111222233334 5555666677778"
     StrValue(<<"1", "1", "1", "1", "2", "2", "2", "2", "3", "3", "3", "3", "4",
                " ", "5", "5", "5", "5", "6", "6", "6", "6", "7", "7", "7", "7",
                "8">>),
     \* "@@TEMP_CC_PLACEHOLDER_0@@"
     StrValue(<<"@", "@", "T", "E", "M", "P", "_", "C", "C", "_", "P", "L", "A",
                "C", "E", "H", "O", "L", "D", "E", "R", "_", "0", "@", "@">>),
     \* "@@TEMP_CC_PLACEHOLDER_0@@ 1234567890123"
     StrValue(<<"@", "@", "T", "E", "M", "P", "_", "C", "C", "_", "P", "L", "A",
                "C", "E", "H", "O", "L", "D", "E", "R", "_", "0", "@", "@", " ",
                "1", "2", "3", "4", "5", "6", "7", "8", "9", "0", "1", "2", "3">>),
     \* "1234567890123 @@TEMP_CC_PLACEHOLDER_1@@"
     StrValue(<<"1", "2", "3", "4", "5", "6", "7", "8", "9", "0", "1", "2", "3",
                " ", "@", "@", "T", "E", "M", "P", "_", "C", "C", "_", "P", "L",
                "A", "C", "E", "H", "O", "L", "D", "E", "R", "_", "1", "@", "@">>),
     \* "Anna met Bo"
     StrValue(<<"A", "n", "n", "a", " ", "m", "e", "t", " ", "B", "o">>),
     \* "PII Anna"
     StrValue(<<"P", "I", "I", " ", "A", "n", "n", "a">>),
     \* "dob Rome"
     StrValue(<<"d", "o", "b", " ", "R", "o", "m", "e">>),
     \* "Bo a@b.co"
     StrValue(<<"B", "o", " ", "a", "@", "b", ".", "c", "o">>),
     \* "K1A 0B1"
     StrValue(<<"K", "1", "A", " ", "0", "B", "1">>),
     \* "AB123456"
     StrValue(<<"A", "B", "1", "2", "3", "4", "5", "6">>),
     \* ".555-123-4567"
     StrValue(<<".", "5", "5", "5", "-", "1", "2", "3", "-", "4", "5", "6", "7">>),
     \* "555-1234"
     StrValue(<<"5", "5", "5", "-", "1", "2", "3", "4">>),
     \* "1/2/1999"
     StrValue(<<"1", "/", "2", "/", "1", "9", "9", "9">>),
     \* "PO Box 12"
     StrValue(<<"P", "O", " ", "B", "o", "x", " ", "1", "2">>),
     \* "12 Oak St"
     StrValue(<<"1", "2", " ", "O", "a", "k", " ", "S", "t">>)}

\* the inputs of two concurrent calls
ConcValues ==
    {NaN,
     \* "1111222233334"
     StrValue(<<"1", "1", "1", "1", "2", "2", "2", "2", "3", "3", "3", "3", "4">>),
     \* "4000111122223333"
     StrValue(<<"4", "0", "0", "0", "1", "1", "1", "1", "2", "2", "2", "2", "3",
                "3", "3", "3">>)}

\* ------------------------------------------------------------- the state

Calls == {1, 2}

VARIABLES
    nlp,          \* the module-level recognizer: "None" or "loaded"
    value,        \* value[p]: the argument of call p
    pc,           \* pc[p]: where call p is
    text,         \* text[p]: the local text
    cc_matches,   \* cc_matches[f]: the list of frame f
    doc,          \* doc[p]: doc.ents, once the loop over it has ended
    entities_to_scrub_tuples,
    raised,       \* raised[p]: the except clause of the entity stage ran
    idx,          \* idx[p]: the index of the restore loop
    result        \* result[p]: the value returned

vars ==
    <<nlp, value, pc, text, cc_matches, doc, entities_to_scrub_tuples, raised,
      idx, result>>

\* one list for all calls, as a module-level cc_matches would be
SharedFrame(p) == 1

\* The frame that holds call p's cc_matches: line 49 makes a new list in every
\* call, so each call has its own.
Frame(p) == p

InitLocals ==
    /\ text = [p \in Calls |-> <<>>]
    /\ cc_matches = [p \in Calls |-> <<>>]
    /\ doc = [p \in Calls |-> <<>>]
    /\ entities_to_scrub_tuples = [p \in Calls |-> <<>>]
    /\ raised = [p \in Calls |-> FALSE]
    /\ idx = [p \in Calls |-> 0]
    /\ result = [p \in Calls |-> Unset]

\* one call of scrub_pii
Init ==
    /\ nlp \in {"None", "loaded"}
    /\ \E v \in Values : value = [p \in Calls |-> IF p = 1 THEN v ELSE Unset]
    /\ pc = [p \in Calls |-> IF p = 1 THEN "start" ELSE "idle"]
    /\ InitLocals

\* two calls of scrub_pii at once
ConcInit ==
    /\ nlp \in {"None", "loaded"}
    /\ value \in [Calls -> ConcValues]
    /\ pc = [p \in Calls |-> "start"]
    /\ InitLocals

\* if pd.isna(text): return text
ReturnMissing(p) ==
    /\ pc[p] = "start"
    /\ IsNa(value[p])
    /\ result' = [result EXCEPT ![p] = value[p]]
    /\ pc' = [pc EXCEPT ![p] = "done"]
    /\ UNCHANGED <<nlp, value, text, cc_matches, doc, entities_to_scrub_tuples,
                   raised, idx>>

\* text = str(text); cc_matches = []; the re.sub with cc_match_replacer
ShieldStep(p) ==
    /\ pc[p] = "start"
    /\ ~IsNa(value[p])
    /\ LET sh == Shield(Str(value[p]))
       IN  /\ text' = [text EXCEPT ![p] = sh.text]
           /\ cc_matches' = [cc_matches EXCEPT ![Frame(p)] = sh.cc_matches]
    /\ pc' = [pc EXCEPT ![p] = "rules"]
    /\ UNCHANGED <<nlp, value, doc, entities_to_scrub_tuples, raised, idx, result>>

\* the nine re.sub(..., "***", ...)
RulesStep(p) ==
    /\ pc[p] = "rules"
    /\ text' = [text EXCEPT ![p] = ApplyRules(text[p])]
    /\ pc' = [pc EXCEPT ![p] = "entity"]
    /\ UNCHANGED <<nlp, value, cc_matches, doc, entities_to_scrub_tuples, raised,
                   idx, result>>

\* if nlp: is false; idx = 0
SkipEntities(p) ==
    /\ pc[p] = "entity"
    /\ nlp = "None"
    /\ idx' = [idx EXCEPT ![p] = 0]
    /\ pc' = [pc EXCEPT ![p] = "restore"]
    /\ UNCHANGED <<nlp, value, text, cc_matches, doc, entities_to_scrub_tuples,
                   raised, result>>

\* doc = nlp(text) is called: the call waits for the recognizer
NlpCall(p) ==
    /\ pc[p] = "entity"
    /\ nlp # "None"
    /\ pc' = [pc EXCEPT ![p] = "in_nlp"]
    /\ UNCHANGED <<nlp, value, text, cc_matches, doc, entities_to_scrub_tuples,
                   raised, idx, result>>

\* nlp(text) raises: except Exception: pass; idx = 0
NlpRaise(p) ==
    /\ pc[p] = "in_nlp"
    /\ raised' = [raised EXCEPT ![p] = TRUE]
    /\ idx' = [idx EXCEPT ![p] = 0]
    /\ pc' = [pc EXCEPT ![p] = "restore"]
    /\ UNCHANGED <<nlp, value, text, cc_matches, doc, entities_to_scrub_tuples,
                   result>>

\* nlp(text) returns a document d, and the try block runs to its end: the loop
\* over doc.ents, the sort and the rewrite loop; idx = 0
EntityStage(p) ==
    /\ pc[p] = "in_nlp"
    /\ \E d \in Docs(text[p]) :
           LET es == SortEnts(FilterEnts(text[p], d))
           IN  /\ doc' = [doc EXCEPT ![p] = d]
               /\ entities_to_scrub_tuples' =
                      [entities_to_scrub_tuples EXCEPT ![p] = es]
               /\ text' = [text EXCEPT ![p] = RewriteEnts(text[p], es)]
    /\ idx' = [idx EXCEPT ![p] = 0]
    /\ pc' = [pc EXCEPT ![p] = "restore"]
    /\ UNCHANGED <<nlp, value, cc_matches, raised, result>>

\* nlp(text) returns a document d whose objects raise in the loop over doc.ents
\* (the iterator, or ent.text, ent.label_, ent.start_char, ent.end_char of the
\* k-th entity): except Exception: pass; idx = 0
EntityLoopRaise(p) ==
    /\ pc[p] = "in_nlp"
    /\ \E d \in Docs(text[p]) : \E k \in 0..Len(d) :
           text' = [text EXCEPT ![p] = TextAfterRaise(text[p], d, k)]
    /\ raised' = [raised EXCEPT ![p] = TRUE]
    /\ idx' = [idx EXCEPT ![p] = 0]
    /\ pc' = [pc EXCEPT ![p] = "restore"]
    /\ UNCHANGED <<nlp, value, cc_matches, doc, entities_to_scrub_tuples, result>>

\* a pass of the while loop with the placeholder of idx in the text
RestoreStep(p) ==
    /\ pc[p] = "restore"
    /\ Contains(text[p], Placeholder(idx[p]))
    /\ text' = [text EXCEPT
                   ![p] = RestoreIter(text[p], cc_matches[Frame(p)], idx[p])]
    /\ idx' = [idx EXCEPT ![p] = idx[p] + 1]
    /\ UNCHANGED <<nlp, value, pc, cc_matches, doc, entities_to_scrub_tuples,
                   raised, result>>

\* the placeholder of idx is not in the text: break; return text
Return(p) ==
    /\ pc[p] = "restore"
    /\ ~Contains(text[p], Placeholder(idx[p]))
    /\ result' = [result EXCEPT ![p] = StrValue(text[p])]
    /\ pc' = [pc EXCEPT ![p] = "done"]
    /\ UNCHANGED <<nlp, value, text, cc_matches, doc, entities_to_scrub_tuples,
                   raised, idx>>

\* the steps the interpreter takes on its own
ProgramStep(p) ==
    \/ ReturnMissing(p)
    \/ ShieldStep(p)
    \/ RulesStep(p)
    \/ SkipEntities(p)
    \/ NlpCall(p)
    \/ RestoreStep(p)
    \/ Return(p)

\* the steps that need an answer of the recognizer
RecognizerStep(p) ==
    \/ NlpRaise(p)
    \/ EntityStage(p)
    \/ EntityLoopRaise(p)

Next == \E p \in Calls : ProgramStep(p) \/ RecognizerStep(p)

Spec == Init /\ [][Next]_vars

ConcSpec == ConcInit /\ [][Next]_vars

\* the interpreter is running the code of call p: the call neither waits for the
\* recognizer nor has returned
Runs(p) == pc[p] \in {"start", "rules", "entity", "restore"}

\* A step of call p on its own: every step of ProgramStep(p), and no other step
\* of Next, changes pc[p] or idx[p] from a state where Runs(p) holds.
Advance(p) ==
    /\ Runs(p)
    /\ \E q \in {"rules", "entity", "in_nlp", "restore", "done"} :
           pc' = [pc EXCEPT ![p] = q]
    /\ \E i \in {0, idx[p], idx[p] + 1} : idx' = [idx EXCEPT ![p] = i]

\* The interpreter always goes on with the code of a call it is running; nothing
\* makes the recognizer answer.
LiveSpec == Spec /\ \A p \in Calls : WF_<<pc, idx>>(Advance(p))

\* ---------------------------------------------------------------- the claims

Missing(v) == v \in {NaN, None}

Returned(p) == pc[p] = "done" /\ ~Missing(value[p])

\* the texts and integers among the inputs
Inputs == {v \in Values \cup ConcValues : ~Missing(v)}

\* the shield on each input, and the nine rules on the shielded text
ShieldOf == [v \in Inputs |-> Shield(Str(v))]
RuledOf == [v \in Inputs |-> ApplyRules(ShieldOf[v].text)]

\* the pipeline without the entity stage: shield, the nine rules, restore
RuleOnly == [v \in Inputs |-> Restore(RuledOf[v], ShieldOf[v].cc_matches, 0)]

\* C1: every credit-card-shaped sequence the shield replaced appears verbatim in
\* the text scrub_pii returns, whatever the rules and the recognizer did.
C1_CardsPreserved ==
    \A p \in Calls :
        Returned(p) =>
            \A k \in 1..Len(cc_matches[p]) :
                Contains(result[p].s, cc_matches[p][k])

\* C2: right after the shield, the restore loop run on the shielded text with the
\* recorded list gives back the text that was shielded.
C2_ShieldRestoreIdentity ==
    \A p \in Calls :
        pc[p] = "rules" => Restore(text[p], cc_matches[p], 0) = Str(value[p])

\* C3: a call on NaN or None only ever returns that value: it is never coerced to
\* text and no stage (shield, rules, entities, restore) touches the call's state.
C3_MissingPassThrough ==
    \A p \in Calls :
        Missing(value[p]) =>
            /\ pc[p] \in {"start", "done"}
            /\ pc[p] = "done" => result[p] = value[p]
            /\ pc[p] = "start" => result[p] = Unset
            /\ text[p] = <<>> /\ cc_matches[p] = <<>> /\ doc[p] = <<>>
            /\ entities_to_scrub_tuples[p] = <<>> /\ ~raised[p] /\ idx[p] = 0

C3_Witness == pc[1] = "done" /\ value[1] = NaN /\ result[1] = NaN

\* C4: with no recognizer, or when the recognizer raises in the entity stage, the
\* call returns a text, and it is the text of the rule-only pipeline.
C4_FailureIsRuleOnly ==
    \A p \in Calls :
        (Returned(p) /\ (nlp = "None" \/ raised[p])) =>
            result[p] = StrValue(RuleOnly[value[p]])

\* the recognizer raised on "Bo a@b.co" and the e-mail rule's marker is returned
C4_Witness ==
    /\ pc[1] = "done" /\ nlp = "loaded" /\ raised[1]
    /\ result[1] = StrValue(<<"B", "o", " ", "*", "*", "*">>)

\* C5: when the restore loop ends with a recorded span not restored, or went past
\* the recorded spans, the returned text carries "[UNEXPECTED_CC_PLACEHOLDER]".
C5_MismatchShowsSentinel ==
    \A p \in Calls :
        (Returned(p) /\ idx[p] # Len(cc_matches[p])) =>
            Contains(result[p].s, UNEXPECTED)

\* what one call computes on its own from its value, the recognizer's answer
\* (doc[p], or raised[p]) and nlp
Alone(p) ==
    IF Missing(value[p]) THEN value[p]
    ELSE LET ruled == RuledOf[value[p]]
             scrubbed ==
                 IF nlp = "None" \/ raised[p] THEN ruled
                 ELSE RewriteEnts(ruled, SortEnts(FilterEnts(ruled, doc[p])))
         IN  StrValue(Restore(scrubbed, ShieldOf[value[p]].cc_matches, 0))

\* C6: with two calls interleaved in any way, each call returns what it computes
\* on its own, and from its shield on the list it reads is the list it recorded.
C6_CallsAreIndependent ==
    \A p \in Calls :
        /\ pc[p] = "done" => result[p] = Alone(p)
        /\ (pc[p] \notin {"start", "idle"} /\ ~Missing(value[p])) =>
               cc_matches[Frame(p)] = ShieldOf[value[p]].cc_matches

\* both calls returned, each its own card
C6_Witness ==
    /\ pc[1] = "done" /\ pc[2] = "done"
    /\ ~Missing(value[1]) /\ ~Missing(value[2]) /\ value[1] # value[2]
    /\ result[1] = value[1] /\ result[2] = value[2]
    /\ nlp = "loaded"

\* C7: every call of scrub_pii on a value that is not missing eventually
\* returns, also when the recognizer does not answer.
C7_EveryCallReturns ==
    \A p \in Calls :
        (pc[p] = "start" /\ ~Missing(value[p])) ~> (pc[p] = "done")

\* C8: on a text with no placeholder of its own, the returned text holds no
\* placeholder of a recorded index: restore handled every one still present.
C8_NoRecordedPlaceholderLeft ==
    \A p \in Calls :
        (Returned(p) /\ ~Contains(Str(value[p]), PLACEHOLDER_PREFIX)) =>
            \A i \in 0..(Len(cc_matches[p]) - 1) :
                ~Contains(result[p].s, Placeholder(i))

\* the step of call p in which the try block of the entity stage runs to its end
EntityStep(p) == pc[p] = "in_nlp" /\ pc'[p] = "restore" /\ ~raised'[p]

SpanOf(e) == <<e[1], e[2]>>

NonOverlapping(es) ==
    \A i \in 1..Len(es) : \A j \in 1..Len(es) :
        i # j => (es[i][2] <= es[j][1] \/ es[j][2] <= es[i][1])

\* the spans of a set, by ascending start
RECURSIVE Ascending(_)
Ascending(sps) ==
    IF sps = {} THEN <<>>
    ELSE LET first == CHOOSE a \in sps : \A b \in sps : a[1] <= b[1]
         IN  <<first>> \o Ascending(sps \ {first})

\* the snapshot t with "***" in place of each span: the untouched segments of t
\* between the spans, copied, and one marker per span
Spliced(t, sps) ==
    LET asc == Ascending(sps)
    IN  Splice(t, asc, [k \in 1..Len(asc) |-> MARKER], 1, 0)

\* C9: when the kept spans do not overlap, the rewrite (descending start order)
\* gives the snapshot with each kept span cut out and "***" put in its place,
\* whatever the order the recognizer returned the spans in.
C9_RewriteIsSplice ==
    [][\A p \in Calls :
          (EntityStep(p) /\ NonOverlapping(entities_to_scrub_tuples'[p])) =>
              text'[p] = Spliced(text[p],
                                 {SpanOf(e) : e \in Range(entities_to_scrub_tuples'[p])})
      ]_vars

\* "Anna met Bo": the recognizer returned Anna before Bo, both were rewritten
C9_Witness ==
    /\ pc[1] = "restore" /\ ~raised[1]
    /\ doc[1] = <<<<0, 4, "PERSON">>, <<9, 11, "GPE">>>>
    /\ text[1] = <<"*", "*", "*", " ", "m", "e", "t", " ", "*", "*", "*">>

\* the claim's condition on an entity of the document of text t
ClaimScrubbed(t, e) ==
    /\ e[3] \in {"PERSON", "ORG", "GPE", "LOC"}
    /\ ~(/\ StrUpper(Slice(t, e[1], e[2])) \in {<<"P", "I", "I">>, <<"D", "O", "B">>}
         /\ e[3] \in {"ORG", "PERSON", "PRODUCT", "WORK_OF_ART", "LAW", "EVENT"})

\* C10: the entities rewritten to "***" are those of category PERSON, ORG, GPE or
\* LOC that are not an acronym false positive; with no such entity the text is
\* unchanged.
C10_ScrubbedIffCategory ==
    [][\A p \in Calls :
          EntityStep(p) =>
              LET kept == SelectSeq(doc'[p], LAMBDA e : ClaimScrubbed(text[p], e))
              IN  /\ Range(entities_to_scrub_tuples'[p]) = Range(kept)
                  /\ text'[p] = RewriteEnts(text[p], SortEnts(kept))
                  /\ Len(kept) = 0 => text'[p] = text[p]
      ]_vars

\* "PII Anna": PII labelled ORG is skipped, Anna labelled PERSON is rewritten
C10_Witness ==
    /\ pc[1] = "restore" /\ ~raised[1]
    /\ doc[1] = <<<<0, 3, "ORG">>, <<4, 8, "PERSON">>>>
    /\ entities_to_scrub_tuples[1] = <<<<4, 8, "PERSON">>>>
    /\ text[1] = <<"P", "I", "I", " ", "*", "*", "*">>
=============================================================================
